---- MODULE Spec2Model ----
(***************************************************************************)
(* A model of bqt/__init__.py: the lifecycle registrar (register,          *)
(* unregister, the two load_post handlers, on_exit), the window wrapper    *)
(* (instantiate_application, load_os_module) and the focus-regain          *)
(* key-release workaround (QFocusOperator).                                *)
(*                                                                         *)
(* Python values are modelled as follows.  A str is a TLA+ string, except  *)
(* event.type and the key names of the keycodes table, which are tuples of *)
(* one-character strings so that Python's substring test `a in b` can be   *)
(* computed.  None and the int 0 that os.getenv returns as defaults are    *)
(* the markers PyNone and PyZero.  An exception is the field err of the    *)
(* state record an operator returns: "none" or the exception's class.      *)
(***************************************************************************)
EXTENDS Integers, Sequences, FiniteSets, TLC

VARIABLES
    platform,             \* sys.platform
    BQT_DISABLE_STARTUP,  \* os.environ entry, or Unset
    BQT_DISABLE_WRAP,     \* os.environ entry, or Unset
    class_registered,     \* QFocusOperator is registered with bpy
    load_post,            \* bpy.app.handlers.load_post (this module's entries)
    atexit_handlers,      \* number of times on_exit is registered with atexit
    modal_handlers,       \* QFocusOperator modal handlers of the window manager
    qapp,                 \* QApplication.instance(): id 0 is None
    parent_window,        \* the module global parent_window: 0 is None
    effects,              \* counters of the effects on the toolkit and the host
    wrap_done,            \* create_global_app has completed at least once
    last,                 \* what the last operation did (history)
    interval,             \* the key releases since the last focus gain
    registers,            \* number of register() calls so far
    loads,                \* number of scene loads so far
    exited                \* the process has run its exit handlers

vars == <<platform, BQT_DISABLE_STARTUP, BQT_DISABLE_WRAP, class_registered,
          load_post, atexit_handlers, modal_handlers, qapp, parent_window,
          effects, wrap_done, last, interval, registers, loads, exited>>

----------------------------------------------------------------------------
(* Bounds of the model *)

MaxRegisters == 3
MaxLoads == 3
MaxObservers == 2

----------------------------------------------------------------------------
(* Python values *)

Unset == "<unset>"
PyNone == "<None>"
PyZero == "<int 0>"

EnvValues == {Unset, "", "0", "1", "true"}
Platforms == {"win32", "darwin", "linux", "linux2", "cygwin"}

\* os.getenv(name, default) for the variable whose entry is v
getenv(v, default) == IF v = Unset THEN default ELSE v

\* Python truthiness of None, 0 and str
Truthy(x) == x \notin {PyNone, PyZero, ""}

\* Python's `a in b` on strings
IsSubstring(a, b) ==
    \E i \in 1..(Len(b) - Len(a) + 1) : SubSeq(b, i, i + Len(a) - 1) = a

\* list.count(x)
Count(list, x) == Cardinality({i \in 1..Len(list) : list[i] = x})

\* x in list
Contains(list, x) == \E i \in 1..Len(list) : list[i] = x

\* the index of the first x of list (x is in list)
IndexOf(list, x) == CHOOSE i \in 1..Len(list) :
                        list[i] = x /\ \A j \in 1..(i - 1) : list[j] # x

\* list without its first x (x is in list)
RemoveFirst(list, x) ==
    LET i == IndexOf(list, x)
    IN  SubSeq(list, 1, i - 1) \o SubSeq(list, i + 1, Len(list))

----------------------------------------------------------------------------
(* The names of the module and the host's event types *)

AFH == "add_focus_handle"
CGA == "create_global_app"

\* the names bound at module level: the imports and the definitions
module_globals ==
    {"atexit", "os", "sys", "ctypes", "bpy", "QtCore", "QApplication",
     "BlenderApplication", "blender_applications", "QFocusOperator",
     "instantiate_application", "load_os_module", "add_focus_handle",
     "parent_window", "create_global_app", "register", "unregister",
     "on_exit"}

T_LEFT_ALT == <<"L","E","F","T","_","A","L","T">>
T_RIGHT_ALT == <<"R","I","G","H","T","_","A","L","T">>
T_LEFT_CTRL == <<"L","E","F","T","_","C","T","R","L">>
T_RIGHT_CTRL == <<"R","I","G","H","T","_","C","T","R","L">>
T_LEFT_SHIFT == <<"L","E","F","T","_","S","H","I","F","T">>
T_RIGHT_SHIFT == <<"R","I","G","H","T","_","S","H","I","F","T">>
T_OSKEY == <<"O","S","K","E","Y">>
T_A == <<"A">>
T_MOUSEMOVE == <<"M","O","U","S","E","M","O","V","E">>
T_LEFT_ARROW == <<"L","E","F","T","_","A","R","R","O","W">>
T_BACK_SPACE == <<"B","A","C","K","_","S","P","A","C","E">>

\* event.type of the events the host delivers: its seven modifier-key types
\* and a few others
EventTypes ==
    {T_LEFT_ALT, T_RIGHT_ALT, T_LEFT_CTRL, T_RIGHT_CTRL, T_LEFT_SHIFT,
     T_RIGHT_SHIFT, T_OSKEY, T_A, T_MOUSEMOVE, T_LEFT_ARROW, T_BACK_SPACE}

\* the table of detect_keyboard
keycodes ==
    << [name |-> <<"_","A","L","T">>, code |-> 18],
       [name |-> <<"_","C","O","N","T","R","O","L">>, code |-> 17],
       [name |-> <<"_","S","H","I","F","T">>, code |-> 16],
       [name |-> <<"V","K","_","L","W","I","N">>, code |-> 91],
       [name |-> <<"V","K","_","R","W","I","N">>, code |-> 92] >>

----------------------------------------------------------------------------
(* The state the operators work on, and exceptions *)

NoApp == [id |-> 0, just_focused |-> FALSE]

NoCall == [called |-> FALSE, had_app |-> FALSE, pre_jf |-> FALSE,
           event |-> <<>>, released |-> <<>>, err |-> "none",
           result |-> "none"]

\* the history of one operation, before it has done anything
Blank(op) ==
    [op |-> op, err |-> "none",
     pre_class |-> class_registered, pre_load_post |-> load_post,
     pre_atexit |-> atexit_handlers, pre_parent |-> parent_window,
     pre_modal |-> modal_handlers, pre_qapp |-> qapp,
     pre_effects |-> effects,
     ran |-> <<>>, handler_errors |-> <<>>,
     cga |-> "not_run", cga_err |-> "none",
     inst_calls |-> 0, inst_pre |-> 0, inst_ret |-> 0,
     dk |-> NoCall, exit_log |-> <<>>,
     unregister_class_attempted |-> FALSE]

\* no input event has released a key since the last focus gain
NoReleases == [released |-> <<>>, events |-> 0]

\* the current state as one record; ret is the value the last call returned
Cur(op) ==
    [class_registered |-> class_registered, load_post |-> load_post,
     atexit_handlers |-> atexit_handlers, modal_handlers |-> modal_handlers,
     qapp |-> qapp, parent_window |-> parent_window, effects |-> effects,
     wrap_done |-> wrap_done, last |-> Blank(op), interval |-> interval,
     err |-> "none", ret |-> 0]

Raise(s, e) == [s EXCEPT !.err = e]

Commit(s) ==
    /\ class_registered' = s.class_registered
    /\ load_post' = s.load_post
    /\ atexit_handlers' = s.atexit_handlers
    /\ modal_handlers' = s.modal_handlers
    /\ qapp' = s.qapp
    /\ parent_window' = s.parent_window
    /\ effects' = s.effects
    /\ wrap_done' = s.wrap_done
    /\ last' = [s.last EXCEPT !.err = s.err]
    /\ interval' = s.interval
    /\ UNCHANGED <<platform, BQT_DISABLE_STARTUP, BQT_DISABLE_WRAP>>

----------------------------------------------------------------------------
(* QFocusOperator: the focus-regain key-release workaround *)

\* ctypes.windll.user32.keybd_event(code, 0, 2, 0): ctypes has the attribute
\* windll on Windows only
keybd_event(s, code) ==
    IF platform = "win32"
    THEN [s EXCEPT !.last.dk.released = Append(@, code),
                  !.interval.released = Append(@, code)]
    ELSE Raise(s, "AttributeError")

\* the loop over keycodes, from its i-th entry on
RECURSIVE release_keys(_, _, _)
release_keys(s, event_type, i) ==
    IF i > Len(keycodes) THEN s
    ELSE IF ~IsSubstring(keycodes[i].name, event_type)
         THEN LET s1 == keybd_event(s, keycodes[i].code)
              IN  IF s1.err # "none" THEN s1
                  ELSE release_keys(s1, event_type, i + 1)
         ELSE release_keys(s, event_type, i + 1)

\* the record of a call of detect_keyboard, at its start
dk_start(s, event_type) ==
    [called |-> TRUE, had_app |-> s.qapp.id # 0,
     pre_jf |-> s.qapp.just_focused, event |-> event_type,
     released |-> <<>>, err |-> "none", result |-> "none"]

\* detect_keyboard without the test of just_focused
detect_keyboard_ignores_flag(s, event_type) ==
    LET s0 == [s EXCEPT !.last.dk = dk_start(s, event_type)]
    IN  IF s0.qapp.id = 0 THEN s0
        ELSE release_keys([s0 EXCEPT !.qapp.just_focused = FALSE],
                          event_type, 1)

\* detect_keyboard without the early return: None has no just_focused
detect_keyboard_no_early_return(s, event_type) ==
    LET s0 == [s EXCEPT !.last.dk = dk_start(s, event_type)]
    IN  IF s0.qapp.id = 0 THEN Raise(s0, "AttributeError")
        ELSE IF s0.qapp.just_focused
             THEN release_keys([s0 EXCEPT !.qapp.just_focused = FALSE],
                               event_type, 1)
             ELSE s0

\* detect_keyboard without line 59: just_focused is not cleared
detect_keyboard_keeps_flag(s, event_type) ==
    LET s0 == [s EXCEPT !.last.dk = dk_start(s, event_type)]
    IN  IF s0.qapp.id = 0 THEN s0
        ELSE IF s0.qapp.just_focused
             THEN release_keys(s0, event_type, 1)
             ELSE s0

detect_keyboard(s, event_type) ==
    LET s0 == [s EXCEPT !.last.dk = dk_start(s, event_type)]
    IN  IF s0.qapp.id = 0 THEN s0
        ELSE IF s0.qapp.just_focused
             THEN release_keys([s0 EXCEPT !.qapp.just_focused = FALSE],
                               event_type, 1)
             ELSE s0

\* modal returns {"PASS_THROUGH"} unless detect_keyboard raised
modal(s, event_type) ==
    LET s1 == detect_keyboard(s, event_type)
    IN  [s1 EXCEPT !.last.dk.err = s1.err,
                   !.last.dk.result = IF s1.err = "none" THEN "PASS_THROUGH"
                                      ELSE "error"]

\* invoke: context.window_manager.modal_handler_add(self)
invoke(s) == [s EXCEPT !.modal_handlers = @ + 1]

----------------------------------------------------------------------------
(* The window wrapper *)

\* DarwinBlenderApplication(sys.argv) and Win32BlenderApplication(sys.argv):
\* construct the singleton, locate the host window and reparent it
BlenderApplication(s) ==
    LET id == s.effects.constructed + 1
    IN  [s EXCEPT !.qapp = [id |-> id, just_focused |-> FALSE],
                  !.effects.constructed = @ + 1,
                  !.effects.reparented = @ + 1,
                  !.ret = id]

load_os_module(s) ==
    IF platform = "darwin" THEN BlenderApplication(s)
    ELSE IF platform \in {"linux", "linux2"} THEN [s EXCEPT !.ret = 0]
    ELSE IF platform = "win32" THEN BlenderApplication(s)
    ELSE [s EXCEPT !.ret = 0]

\* instantiate_application without the test `if not app`
instantiate_application_always_loads(s) ==
    LET s1 == [s EXCEPT !.effects.dpi = @ + 1,
                        !.last.inst_calls = @ + 1,
                        !.last.inst_pre = s.qapp.id]
        s2 == load_os_module(s1)
    IN  [s2 EXCEPT !.last.inst_ret = s2.ret]

instantiate_application(s) ==
    LET s1 == [s EXCEPT !.effects.dpi = @ + 1,
                        !.last.inst_calls = @ + 1,
                        !.last.inst_pre = s.qapp.id]
        s2 == IF s1.qapp.id = 0 THEN load_os_module(s1)
              ELSE [s1 EXCEPT !.ret = s1.qapp.id]
    IN  [s2 EXCEPT !.last.inst_ret = s2.ret]

----------------------------------------------------------------------------
(* The load_post handlers *)

\* bpy.ops.bqt.return_focus('INVOKE_DEFAULT'): the operator exists in bpy.ops
\* only while its class is registered
\* add_focus_handle removing itself from load_post, as create_global_app does
add_focus_handle_removes_itself(s) ==
    IF s.class_registered
    THEN [invoke(s) EXCEPT !.load_post = RemoveFirst(@, AFH)]
    ELSE Raise(s, "AttributeError")

add_focus_handle(s) ==
    IF s.class_registered THEN invoke(s) ELSE Raise(s, "AttributeError")

\* create_global_app with line 142 as its first statement
create_global_app_removes_first(s) ==
    IF ~Contains(s.load_post, CGA) THEN Raise(s, "ValueError")
    ELSE LET s1 == instantiate_application(
                       [s EXCEPT !.load_post = RemoveFirst(@, CGA)])
         IN  IF s1.ret = 0 THEN Raise(s1, "AttributeError")
             ELSE [s1 EXCEPT !.parent_window = s1.ret, !.wrap_done = TRUE]

create_global_app(s) ==
    LET s1 == instantiate_application(s)
    IN  IF s1.ret = 0 THEN Raise(s1, "AttributeError")
        ELSE LET s2 == [s1 EXCEPT !.parent_window = s1.ret]
             IN  IF Contains(s2.load_post, CGA)
                 THEN [s2 EXCEPT !.load_post = RemoveFirst(@, CGA),
                                 !.wrap_done = TRUE]
                 ELSE Raise(s2, "ValueError")

----------------------------------------------------------------------------
(* The lifecycle registrar *)

\* bpy.utils.register_class: a class that is registered already is refused
register_class(s) ==
    IF s.class_registered THEN Raise(s, "ValueError")
    ELSE [s EXCEPT !.class_registered = TRUE]

\* bpy.utils.unregister_class: a class that is not registered is refused
unregister_class(s) ==
    IF s.class_registered THEN [s EXCEPT !.class_registered = FALSE]
    ELSE Raise(s, "RuntimeError")

\* lines 158-159
append_add_focus_handle(s) ==
    IF ~Contains(s.load_post, AFH)
    THEN [s EXCEPT !.load_post = Append(@, AFH)]
    ELSE s

\* lines 168-169 without the membership test
append_create_global_app_unguarded(s) ==
    [s EXCEPT !.load_post = Append(@, CGA)]

\* lines 168-169
append_create_global_app(s) ==
    IF ~Contains(s.load_post, CGA)
    THEN [s EXCEPT !.load_post = Append(@, CGA)]
    ELSE s

\* atexit.register(on_exit): atexit keeps every registration
atexit_register(s) == [s EXCEPT !.atexit_handlers = @ + 1]

\* atexit.unregister(on_exit): removes every registration, never an error
atexit_unregister(s) == [s EXCEPT !.atexit_handlers = 0]

\* register without lines 150-151
register_ignores_startup(s) ==
    LET s1 == IF ~Truthy(getenv(BQT_DISABLE_WRAP, PyZero))
              THEN LET c == register_class(s)
                   IN  IF c.err # "none" THEN c
                       ELSE append_add_focus_handle(c)
              ELSE s
    IN  IF s1.err # "none" THEN s1
        ELSE atexit_register(append_create_global_app(s1))

register(s) ==
    IF Truthy(getenv(BQT_DISABLE_STARTUP, PyNone)) THEN s
    ELSE LET s1 == IF ~Truthy(getenv(BQT_DISABLE_WRAP, PyZero))
                   THEN LET c == register_class(s)
                        IN  IF c.err # "none" THEN c
                            ELSE append_add_focus_handle(c)
                   ELSE s
         IN  IF s1.err # "none" THEN s1
             ELSE atexit_register(append_create_global_app(s1))

\* the evaluation of focus.QFocusOperator at line 182
lookup_focus(s) ==
    IF "focus" \in module_globals THEN s ELSE Raise(s, "NameError")

unregister(s) ==
    LET s1 == IF getenv(BQT_DISABLE_WRAP, PyZero) # "1"
              THEN LET n == lookup_focus(
                               [s EXCEPT !.last.unregister_class_attempted
                                             = TRUE])
                   IN  IF n.err # "none" THEN n ELSE unregister_class(n)
              ELSE s
    IN  IF s1.err # "none" THEN s1
        ELSE LET s2 == IF Contains(s1.load_post, CGA)
                       THEN [s1 EXCEPT !.load_post = RemoveFirst(@, CGA)]
                       ELSE s1
                 s3 == IF Contains(s2.load_post, AFH)
                       THEN [s2 EXCEPT !.load_post = RemoveFirst(@, AFH)]
                       ELSE s2
             IN  atexit_unregister(s3)

\* app.store_window_geometry()
store_window_geometry(s) ==
    [s EXCEPT !.effects.stored = @ + 1,
              !.last.exit_log = Append(@, "store_window_geometry")]

\* app.quit()
quit(s) ==
    [s EXCEPT !.effects.quits = @ + 1,
              !.last.exit_log = Append(@, "quit")]

on_exit(s) ==
    IF s.qapp.id # 0 THEN quit(store_window_geometry(s)) ELSE s

----------------------------------------------------------------------------
(* The host: it runs the load_post handlers, delivers events to the modal  *)
(* handlers and runs the exit handlers                                     *)

\* The host walks the live list by index; an exception of a handler is
\* printed and the walk goes on.
RECURSIVE run_load_post(_, _)
run_load_post(s, pos) ==
    IF pos > Len(s.load_post) THEN s
    ELSE LET h == s.load_post[pos]
             armed == \E i \in 1..(pos - 1) : s.load_post[i] = AFH
             s0 == [s EXCEPT !.last.ran = Append(@, h)]
             s1 == IF h = AFH THEN add_focus_handle(s0)
                   ELSE create_global_app(
                            [s0 EXCEPT !.last.cga =
                                 IF armed THEN "armed" ELSE "unarmed"])
             s2 == [s1 EXCEPT !.last.handler_errors =
                                  IF s1.err = "none" THEN @
                                  ELSE Append(@, <<h, s1.err>>),
                              !.last.cga_err =
                                  IF h = CGA THEN s1.err ELSE @,
                              !.err = "none"]
         IN  run_load_post(s2, pos + 1)

\* The host hands the event to each of the n modal handlers; a handler whose
\* modal raises is dropped.
RECURSIVE deliver(_, _, _)
deliver(s, event_type, n) ==
    IF n = 0 THEN s
    ELSE LET s1 == modal(s, event_type)
             s2 == IF s1.err = "none" THEN s1
                   ELSE [s1 EXCEPT !.modal_handlers = @ - 1, !.err = "none"]
         IN  deliver(s2, event_type, n - 1)

\* atexit runs every registration
RECURSIVE run_exit_handlers(_, _)
run_exit_handlers(s, n) ==
    IF n = 0 THEN s ELSE run_exit_handlers(on_exit(s), n - 1)

----------------------------------------------------------------------------
(* The state machine *)

Init ==
    /\ platform \in Platforms
    /\ BQT_DISABLE_STARTUP \in EnvValues
    /\ BQT_DISABLE_WRAP \in EnvValues
    /\ class_registered = FALSE
    /\ load_post = <<>>
    /\ atexit_handlers = 0
    /\ modal_handlers = 0
    /\ qapp = NoApp
    /\ parent_window = 0
    /\ effects = [constructed |-> 0, reparented |-> 0, dpi |-> 0,
                  stored |-> 0, quits |-> 0]
    /\ wrap_done = FALSE
    /\ last = Blank("init")
    /\ interval = NoReleases
    /\ registers = 0
    /\ loads = 0
    /\ exited = FALSE

\* the host (or the user) calls register()
Register ==
    /\ ~exited
    /\ registers < MaxRegisters
    /\ Commit(register(Cur("register")))
    /\ registers' = registers + 1
    /\ UNCHANGED <<loads, exited>>

\* the host (or the user) calls unregister()
Unregister ==
    /\ ~exited
    /\ Commit(unregister(Cur("unregister")))
    /\ UNCHANGED <<registers, loads, exited>>

\* a scene is loaded: the host drops the modal handlers of the previous
\* context and runs load_post
SceneLoad ==
    /\ ~exited
    /\ loads < MaxLoads
    /\ Commit(run_load_post([Cur("load") EXCEPT !.modal_handlers = 0], 1))
    /\ loads' = loads + 1
    /\ UNCHANGED <<registers, exited>>

\* the toolkit application reports that the host window gained focus
FocusGained ==
    /\ ~exited
    /\ qapp.id # 0
    /\ Commit([Cur("focus") EXCEPT !.qapp.just_focused = TRUE,
                                   !.interval = NoReleases])
    /\ UNCHANGED <<registers, loads, exited>>

\* the host delivers an input event to the modal handlers
InputEvent(event_type) ==
    /\ ~exited
    /\ modal_handlers > 0
    /\ LET s == deliver(Cur("event"), event_type, modal_handlers)
       IN  Commit([s EXCEPT !.interval.events =
                       IF Len(s.interval.released) > Len(interval.released)
                       THEN @ + 1 ELSE @])
    /\ UNCHANGED <<registers, loads, exited>>

\* a script or the user calls bpy.ops.bqt.return_focus('INVOKE_DEFAULT')
InvokeOperator ==
    /\ ~exited
    /\ class_registered
    /\ modal_handlers < MaxObservers
    /\ Commit(invoke(Cur("invoke")))
    /\ UNCHANGED <<registers, loads, exited>>

\* the process exits
ProcessExit ==
    /\ ~exited
    /\ Commit(run_exit_handlers(Cur("exit"), atexit_handlers))
    /\ exited' = TRUE
    /\ UNCHANGED <<registers, loads>>

Next ==
    \/ Register
    \/ Unregister
    \/ SceneLoad
    \/ FocusGained
    \/ \E event_type \in EventTypes : InputEvent(event_type)
    \/ InvokeOperator
    \/ ProcessExit

Spec == Init /\ [][Next]_vars

----------------------------------------------------------------------------
(* The properties *)

\* the number of times code occurs in the releases of the last call of
\* detect_keyboard
Released(code) == Count(last.dk.released, code)

KeyCodes == {keycodes[i].code : i \in 1..Len(keycodes)}

\* the key codes of the modifier that an event type of the host denotes
\* (the host has one event type, OSKEY, for both OS keys)
ModifierCodes(event_type) ==
    IF event_type \in {T_LEFT_ALT, T_RIGHT_ALT} THEN {18}
    ELSE IF event_type \in {T_LEFT_CTRL, T_RIGHT_CTRL} THEN {17}
    ELSE IF event_type \in {T_LEFT_SHIFT, T_RIGHT_SHIFT} THEN {16}
    ELSE IF event_type = T_OSKEY THEN {91, 92}
    ELSE {}

\* the last operation delivered an event to detect_keyboard
Handled == last.op = "event" /\ last.dk.called

\* C1: after any prefix of any sequence of register(), unregister() and
\* scene loads, load_post holds add_focus_handle at most once and
\* create_global_app at most once.
C1_NoDuplicateHooks ==
    /\ Count(load_post, AFH) <= 1
    /\ Count(load_post, CGA) <= 1

\* a second register() has run and both hooks are in load_post
C1_Witness ==
    /\ last.op = "register"
    /\ registers >= 2
    /\ Contains(last.pre_load_post, CGA)
    /\ Contains(load_post, CGA)

\* C2: once create_global_app has completed on a scene load, it is absent
\* from load_post in every later state.
C2_WrapHookStaysAbsent == wrap_done => ~Contains(load_post, CGA)

\* C3: whenever create_global_app executes on a scene load,
\* add_focus_handle is in load_post at an earlier position.
C3_FocusHookArmedBeforeWrap == last.cga # "not_run" => last.cga = "armed"

\* C4: the toolkit application singleton is constructed, and the host window
\* reparented, at most once, and a call of instantiate_application that finds
\* a singleton returns that singleton.
C4_InstantiateIdempotent ==
    /\ effects.constructed <= 1
    /\ effects.reparented <= 1
    /\ (last.inst_calls > 0 /\ last.inst_pre # 0
            => last.inst_ret = last.inst_pre /\ qapp.id = last.inst_pre)

\* instantiate_application was called while the singleton existed
C4_Witness ==
    /\ platform \in {"win32", "darwin"}
    /\ last.op = "load"
    /\ last.inst_calls > 0
    /\ last.inst_pre # 0
    /\ effects.constructed = 1

\* C5: an event with just_focused = true whose key is none of the five
\* modifiers releases each of the five key codes exactly once and leaves
\* just_focused false.
C5_AllFiveReleased ==
    (Handled /\ last.dk.had_app /\ last.dk.pre_jf
        /\ ModifierCodes(last.dk.event) = {})
    => /\ \A code \in KeyCodes : Released(code) = 1
       /\ ~qapp.just_focused

\* C6: an event with just_focused = true whose key is one of the five
\* modifiers releases every key code but that modifier's, each exactly once,
\* and leaves just_focused false.
C6_OthersReleased ==
    (Handled /\ last.dk.had_app /\ last.dk.pre_jf
        /\ ModifierCodes(last.dk.event) # {})
    => /\ \A code \in ModifierCodes(last.dk.event) : Released(code) = 0
       /\ \A code \in KeyCodes \ ModifierCodes(last.dk.event) :
              Released(code) = 1
       /\ ~qapp.just_focused

\* C7: an event with just_focused = false releases no key, whatever its key
\* is, and just_focused stays false.
C7_NoReleaseWhenNotFocused ==
    (Handled /\ last.dk.had_app /\ ~last.dk.pre_jf)
    => /\ last.dk.released = <<>>
       /\ last.dk.err = "none"
       /\ ~qapp.just_focused

\* a modifier-key event was handled with just_focused = false
C7_Witness ==
    /\ Handled
    /\ last.dk.had_app
    /\ ~last.dk.pre_jf
    /\ platform = "win32"
    /\ last.dk.event = T_LEFT_CTRL

Registrations(s) ==
    [class |-> s.class_registered, load_post |-> s.load_post,
     atexit |-> s.atexit_handlers]

\* the registrations after one register() in a fresh process
SingleRegister ==
    Registrations(register(
        [class_registered |-> FALSE, load_post |-> <<>>,
         atexit_handlers |-> 0, err |-> "none"]))

\* C9: register() called when everything is registered already raises no
\* error and leaves the registrations of a single call.
C9_RegisterIdempotent ==
    (/\ last.op = "register"
     /\ [class |-> last.pre_class, load_post |-> last.pre_load_post,
         atexit |-> last.pre_atexit] = SingleRegister)
    => /\ last.err = "none"
       /\ [class |-> class_registered, load_post |-> load_post,
           atexit |-> atexit_handlers] = SingleRegister

\* C10: unregister() never ends in an error, and after it neither hook is in
\* load_post and on_exit is no exit handler.
C10_UnregisterNeverFails ==
    last.op = "unregister"
    => /\ last.err = "none"
       /\ ~Contains(load_post, AFH)
       /\ ~Contains(load_post, CGA)
       /\ atexit_handlers = 0

\* C11: at process exit, with on_exit registered by register(), an existing
\* singleton has its geometry persisted and is then terminated, exactly once
\* each; without a singleton the exit handlers do nothing.
C11_ExitOnce ==
    exited
    => /\ (qapp.id # 0 /\ last.pre_atexit >= 1)
              => /\ last.exit_log = <<"store_window_geometry", "quit">>
                 /\ effects.stored = 1
                 /\ effects.quits = 1
       /\ qapp.id = 0 => (last.exit_log = <<>> /\ effects = last.pre_effects)

\* C12: with BQT_DISABLE_WRAP set, register() does not install the wrap step:
\* create_global_app is never in load_post and never executes, and the host
\* window is never reparented.
C12_DisableWrapNeverWraps ==
    Truthy(getenv(BQT_DISABLE_WRAP, PyZero))
    => /\ ~Contains(load_post, CGA)
       /\ last.cga = "not_run"
       /\ effects.reparented = 0

\* nothing is registered, nothing is wrapped and no focus observer is active
NothingSetUp ==
    /\ ~class_registered
    /\ load_post = <<>>
    /\ atexit_handlers = 0
    /\ modal_handlers = 0
    /\ qapp = NoApp
    /\ parent_window = 0
    /\ effects.constructed = 0
    /\ effects.reparented = 0

\* C13 as stated: with BQT_DISABLE_STARTUP set (to any value, the empty
\* string included), register() changes nothing and scene loads neither wrap
\* the host window nor install a focus observer.
C13_DisableStartupSet == BQT_DISABLE_STARTUP # Unset => NothingSetUp

\* C13, amended: with BQT_DISABLE_STARTUP set to a non-empty value,
\* register() changes nothing and scene loads neither wrap the host window
\* nor install a focus observer.
C13_DisableStartupNonEmpty ==
    Truthy(getenv(BQT_DISABLE_STARTUP, PyNone)) => NothingSetUp

\* register() and then a scene load have run with the flag non-empty
C13_Witness ==
    /\ Truthy(getenv(BQT_DISABLE_STARTUP, PyNone))
    /\ registers >= 1
    /\ loads >= 1
    /\ last.op = "load"

\* C14: on a platform for which load_os_module returns None, the wrap step
\* executed on a scene load ends without an error.
C14_UnsupportedPlatformSilent ==
    (platform \notin {"win32", "darwin"} /\ last.cga # "not_run")
    => /\ last.cga_err = "none"
       /\ last.handler_errors = <<>>

\* C15: a scene load leaves add_focus_handle in load_post, runs it once, and
\* leaves exactly one focus observer active; with wrapping enabled this is so
\* after every scene load that follows a register().
C15_FocusHookPersists ==
    /\ (last.op = "load" /\ Contains(last.pre_load_post, AFH))
           => /\ Contains(load_post, AFH)
              /\ Count(last.ran, AFH) = 1
              /\ modal_handlers = 1
    /\ (/\ last.op = "load"
        /\ registers >= 1
        /\ ~Truthy(getenv(BQT_DISABLE_STARTUP, PyNone))
        /\ ~Truthy(getenv(BQT_DISABLE_WRAP, PyZero)))
           => Contains(last.pre_load_post, AFH)

\* a later scene load replaced the observer of the scene before
C15_Witness ==
    /\ last.op = "load"
    /\ loads >= 2
    /\ last.pre_modal >= 1
    /\ Contains(load_post, AFH)
    /\ modal_handlers = 1

\* C16: a call of instantiate_application that finds a singleton has no
\* effect: in particular the DPI-scaling configuration is not applied again.
C16_NoDpiWhenSingletonExists ==
    (last.inst_calls > 0 /\ last.inst_pre # 0)
    => /\ effects.dpi = last.pre_effects.dpi
       /\ effects = last.pre_effects

\* C17: since the last focus gain at most one input event has released keys,
\* and each key code has been released at most once.
C17_OneReleasePerFocusGain ==
    /\ interval.events <= 1
    /\ \A i \in 1..Len(keycodes) :
           Count(interval.released, keycodes[i].code) <= 1

\* an event delivered to two observers with just_focused = true released the
\* five keys once
C17_Witness ==
    /\ last.op = "event"
    /\ last.pre_modal = 2
    /\ last.pre_qapp.just_focused
    /\ interval.events = 1
    /\ Len(interval.released) = 5

\* C18: a wrap step that ends in an error before its last statement leaves
\* create_global_app in load_post and parent_window as it was, and a scene
\* load runs create_global_app whenever it is in load_post.
C18_FailedWrapIsRetried ==
    /\ (last.op = "load" /\ last.cga_err = "AttributeError")
           => /\ Contains(load_post, CGA)
              /\ parent_window = last.pre_parent
    /\ (last.op = "load" /\ Contains(last.pre_load_post, CGA))
           => Contains(last.ran, CGA)

\* the wrap step failed again on a later scene load
C18_Witness ==
    /\ last.op = "load"
    /\ loads >= 2
    /\ last.cga_err = "AttributeError"
    /\ Contains(last.pre_load_post, CGA)
    /\ Contains(load_post, CGA)

\* C19: unregister() attempts to unregister QFocusOperator if and only if
\* register() under the same value of BQT_DISABLE_WRAP registers it.
C19_FlagAgreement ==
    (last.op = "unregister" /\ ~Truthy(getenv(BQT_DISABLE_STARTUP, PyNone)))
    => (last.unregister_class_attempted <=> SingleRegister.class)

====
